---------------------------- MODULE Spec2Model ----------------------------
(***************************************************************************)
(* Model of tutorial/5_recurrent_network_tutorial.ipynb: the van der Pol   *)
(* right-hand side and flow field, the trajectory / minibatch generators,  *)
(* and the execution of the notebook's code cells with its training loop.  *)
(*                                                                         *)
(* Python floats (float64) are modelled by exact rationals <<num, den>>    *)
(* in lowest terms with den > 0.  Single-precision tensor elements are     *)
(* modelled as <<sign, mantissa, exponent>> with a 24-bit mantissa.        *)
(* Python indices start at 0, sequence indices here start at 1: element    *)
(* a[t, i, k] of the notebook is a[t+1][i+1][k+1] in this module.          *)
(***************************************************************************)
EXTENDS Integers, Naturals, Sequences, FiniteSets, TLC

VARIABLES
    \* ---- van_der_pol_dynamics / plot_flow_field (SpecDyn)
    dynT,           \* argument t of the last van_der_pol_dynamics call
    dynX,           \* argument x of the last van_der_pol_dynamics call
    dynOut,         \* its return value [dx1, dx2]
    flow,           \* the arguments plot_flow_field handed to plt.streamplot
    \* ---- get_random_trajectory / get_minibatch (SpecBatch)
    mpc,            \* position inside get_minibatch
    n,              \* get_minibatch's parameter
    i,              \* the loop variable of "for i in range(n)"
    inputs,         \* the local list, then array, inputs
    trajectories,   \* the local list, then array, trajectories
    solution,       \* get_random_trajectory's local: the solve_ivp result
    trajectory,     \* the local trajectory of the current example
    solutions,      \* the solve_ivp results of this call's examples, in order
    produced,       \* what get_random_trajectory returned, per example
    ret,            \* the pair returned by get_minibatch
    \* ---- the notebook's cells and the training loop (Spec)
    pc,             \* index of the next top-level statement
    bpc,            \* index of the next statement of the for body (0: at the head)
    bound,          \* names bound in the notebook's global namespace
    nameError,      \* the name a NameError was raised for, or "none"
    boundAtDef,     \* for each function, the names bound when its def ran
    firstCall,      \* for each function, the names bound at its first call
    rangeNext,      \* next value range(2000) yields
    sample,         \* the loop variable
    loss,           \* loss.item() of the current iteration
    batches,        \* get_minibatch calls made by the loop
    lastBatchN,     \* the argument of the last of them
    steps,          \* optimizer.step calls made
    printed         \* progress lines printed

dynVars   == <<dynT, dynX, dynOut, flow>>
batchVars == <<mpc, n, i, inputs, trajectories, solution, trajectory,
               solutions, produced, ret>>
nbVars    == <<pc, bpc, bound, nameError, boundAtDef, firstCall, rangeNext, sample, loss,
               batches, lastBatchN, steps, printed>>
vars      == <<dynVars, batchVars, nbVars>>

\* a variable not assigned yet: an empty tuple, or -1 for a number
Unset == <<>>

----------------------------------------------------------------------------
(* Float arithmetic, as exact rationals in lowest terms.                   *)

Abs(a) == IF a < 0 THEN -a ELSE a

RECURSIVE Gcd(_, _)
Gcd(a, b) == IF b = 0 THEN a ELSE Gcd(b, a % b)

Norm(p, q) ==
    LET s == IF q < 0 THEN -1 ELSE 1
        g == Gcd(Abs(p), Abs(q))
    IN  <<(s * p) \div g, (s * q) \div g>>

R(k) == <<k, 1>>

RAdd(a, b) == Norm(a[1] * b[2] + b[1] * a[2], a[2] * b[2])
RSub(a, b) == Norm(a[1] * b[2] - b[1] * a[2], a[2] * b[2])
RMul(a, b) == Norm(a[1] * b[1], a[2] * b[2])
RDiv(a, b) == Norm(a[1] * b[2], a[2] * b[1])
RLess(a, b) == a[1] * b[2] < b[1] * a[2]
RLeq(a, b)  == a[1] * b[2] <= b[1] * a[2]

\* x ** 2
RSquare(a) == RMul(a, a)

\* int(x): truncation toward zero
PyInt(a) == IF a[1] >= 0 THEN a[1] \div a[2] ELSE -((-a[1]) \div a[2])

\* np.linspace(start, stop, num): num samples, start + k*step, k = 0..num-1
Linspace(start, stop, num) ==
    LET step == RDiv(RSub(stop, start), R(num - 1))
    IN  [k \in 1..num |-> RAdd(start, RMul(R(k - 1), step))]

----------------------------------------------------------------------------
(* The van der Pol right-hand side and the flow field.                     *)

\* van_der_pol_dynamics with the damping term scaled by the time
VdpTimeScaled(t, x) ==
    <<x[2], RSub(RMul(RMul(RMul(<<1, 10>>, t), RSub(R(1), RSquare(x[1]))), x[2]), x[1])>>

van_der_pol_dynamics(t, x) ==
    LET mu  == <<1, 10>>
        dx1 == x[2]
        dx2 == RSub(RMul(RMul(mu, RSub(R(1), RSquare(x[1]))), x[2]), x[1])
    IN  <<dx1, dx2>>

GridN == 20

\* np.meshgrid(x1, x2): row r, column c holds (x1[c], x2[r])
Meshgrid(x1, x2) ==
    [X1 |-> [r \in 1..Len(x2) |-> [c \in 1..Len(x1) |-> x1[c]]],
     X2 |-> [r \in 1..Len(x2) |-> [c \in 1..Len(x1) |-> x2[r]]]]

\* the four arrays plot_flow_field passes to plt.streamplot
plot_flow_field ==
    LET x1 == Linspace(R(-5), R(5), GridN)
        x2 == Linspace(R(-5), R(5), GridN)
        G  == Meshgrid(x1, x2)
        mu == <<1, 10>>
        dx1 == G.X2
        dx2 == [r \in 1..GridN |-> [c \in 1..GridN |->
                  RSub(RMul(RMul(mu, RSub(R(1), RSquare(G.X1[r][c]))), G.X2[r][c]),
                       G.X1[r][c])]]
    IN  [X1 |-> G.X1, X2 |-> G.X2, dx1 |-> dx1, dx2 |-> dx2]

----------------------------------------------------------------------------
(* scipy's solve_ivp and numpy's interp, as the notebook uses them.        *)

\* The pairs np.random.rand(2) is taken to return (each value in [0, 1)).
RandDraws == {<< <<0, 1>>, <<7, 8>> >>, << <<3, 4>>, <<1, 4>> >>}

MaxSub == 2

\* The step the solver settles on: max_step itself (choice 0), or the
\* fraction (s+1)/(s+2) of it.  solve_ivp promises no particular number of
\* steps, only that none is longer than max_step.
SolverStep(max_step, s) ==
    IF s = 0 THEN max_step ELSE RMul(max_step, <<s + 1, s + 2>>)

RMin(a, b) == IF RLeq(a, b) THEN a ELSE b

\* the solver's working precision: state values are rounded to tenths
Quant(a) == Norm((20 * a[1] + a[2]) \div (2 * a[2]), 10)

\* The solver's march from ts[last] to tf: one forward step of length at most
\* h per time point, each calling van_der_pol_dynamics(t, y).  scipy's own
\* scheme is of higher order; what the notebook relies on is kept: the
\* first point is (t0, y0), the times increase to tf exactly, no step is
\* longer than max_step, and the number of points depends on the step.
RECURSIVE Integrate(_, _, _, _, _)
Integrate(ts, y1s, y2s, tf, h) ==
    LET t  == ts[Len(ts)]
        y  == <<y1s[Len(ts)], y2s[Len(ts)]>>
        tn == RMin(RAdd(t, h), tf)
        f  == van_der_pol_dynamics(t, y)
        dt == RSub(tn, t)
    IN  IF RLeq(tf, t)
        THEN [t |-> ts, y |-> <<y1s, y2s>>]
        ELSE Integrate(Append(ts, tn),
                       Append(y1s, Quant(RAdd(y[1], RMul(dt, f[1])))),
                       Append(y2s, Quant(RAdd(y[2], RMul(dt, f[2])))),
                       tf, h)

\* solve_ivp(van_der_pol_dynamics, [t0, tf], y0, max_step=max_step) with the
\* solver's step choice s: solution.t runs from t0 to tf in steps of at most
\* max_step, solution.y has one row per state variable, column 0 is y0.
solve_ivp(t0, tf, y0, max_step, s) ==
    Integrate(<<t0>>, <<y0[1]>>, <<y0[2]>>, tf, SolverStep(max_step, s))

\* np.interp(x, xp, fp) at one point x
Interp1(x, xp, fp) ==
    IF RLess(x, xp[1]) THEN fp[1]
    ELSE IF RLeq(xp[Len(xp)], x) THEN fp[Len(xp)]
    ELSE LET j == CHOOSE j \in 1..(Len(xp) - 1) :
                      RLeq(xp[j], x) /\ RLess(x, xp[j + 1])
             slope == RDiv(RSub(fp[j + 1], fp[j]), RSub(xp[j + 1], xp[j]))
         IN  RAdd(RMul(slope, RSub(x, xp[j])), fp[j])

np_interp(x, xp, fp) == [k \in 1..Len(x) |-> Interp1(x[k], xp, fp)]

----------------------------------------------------------------------------
(* get_random_trajectory, with its random draw u = rand(2) and the         *)
(* solver's step choice s made explicit.                                   *)

GrtX0(u) == <<RAdd(R(-5), RMul(R(10), u[1])), RAdd(R(-5), RMul(R(10), u[2]))>>

\* lines 117-120: the draw of x0 and the call of the solver
GrtSolve(u, s) ==
    LET dt == <<1, 10>>
        T  == R(2)
        x0 == GrtX0(u)
    IN  solve_ivp(R(0), T, x0, dt, s)

\* the solver's own samples returned as they are
GrtNoResample(sol) == sol.y

\* lines 124-129: the solution resampled at the times 0, dt, ..., T
GrtResample(sol) ==
    LET dt == <<1, 10>>
        T  == R(2)
        times == Linspace(R(0), T, PyInt(RDiv(T, dt)) + 1)
        zeros == [k \in 1..2 |-> [j \in 1..Len(times) |-> R(0)]]
        row1  == [zeros EXCEPT ![1] = np_interp(times, sol.t, sol.y[1])]
    IN  [row1 EXCEPT ![2] = np_interp(times, sol.t, sol.y[2])]

----------------------------------------------------------------------------
(* numpy array plumbing and the conversion to a single-precision tensor.   *)

\* a.T of a two-dimensional array
Transpose(a) == [c \in 1..Len(a[1]) |-> [r \in 1..Len(a) |-> a[r][c]]]

\* a.swapaxes(0, 1) of a three-dimensional array
SwapAxes01(a) == [p \in 1..Len(a[1]) |-> [q \in 1..Len(a) |-> a[q][p]]]

\* a.shape of a three-dimensional array
Shape3(a) == <<Len(a), Len(a[1]), Len(a[1][1])>>

RECURSIVE Pow2(_)
Pow2(k) == IF k = 0 THEN 1 ELSE 2 * Pow2(k - 1)

\* floor(log2(p/q)) for p, q > 0
RECURSIVE Log2Floor(_, _)
Log2Floor(p, q) ==
    IF p < q THEN Log2Floor(2 * p, q) - 1
    ELSE IF p >= 2 * q THEN Log2Floor(p, 2 * q) + 1
    ELSE 0

\* <<quotient, remainder>> after shifting b more bits of p/q into the quotient
ShiftIn(mr, q, b) ==
    <<mr[1] * Pow2(b) + (mr[2] * Pow2(b)) \div q, (mr[2] * Pow2(b)) % q>>

\* float64 -> float32: <<sign, mantissa, exponent>> stands for
\* sign * mantissa * 2^(exponent - 23), mantissa in 2^23 .. 2^24 - 1, rounded
\* to nearest, ties to even; zero is <<0, 0, 0>>.
Float32(a) ==
    IF a[1] = 0 THEN <<0, 0, 0>>
    ELSE LET sgn == IF a[1] < 0 THEN -1 ELSE 1
             e   == Log2Floor(Abs(a[1]), a[2])
             p   == IF e < 0 THEN Abs(a[1]) * Pow2(-e) ELSE Abs(a[1])
             q   == IF e < 0 THEN a[2] ELSE a[2] * Pow2(e)
             mr  == ShiftIn(ShiftIn(ShiftIn(<<p \div q, p % q>>, q, 8), q, 8), q, 7)
             up  == \/ 2 * mr[2] > q
                    \/ 2 * mr[2] = q /\ mr[1] % 2 = 1
             m   == IF up THEN mr[1] + 1 ELSE mr[1]
         IN  IF m = Pow2(24) THEN <<sgn, Pow2(23), e + 1>> ELSE <<sgn, m, e>>

\* torch.Tensor(a) of a three-dimensional float64 array
Tensor(a) ==
    [p \in 1..Len(a) |-> [q \in 1..Len(a[p]) |->
        [k \in 1..Len(a[p][q]) |-> Float32(a[p][q][k])]]]

----------------------------------------------------------------------------
(* get_minibatch(n), one action per step of its body.                      *)

MaxN == 2

InitBatch ==
    /\ mpc = "idle"
    /\ n = 0
    /\ i = -1
    /\ inputs = <<>>
    /\ trajectories = <<>>
    /\ solution = Unset
    /\ trajectory = Unset
    /\ solutions = <<>>
    /\ produced = <<>>
    /\ ret = Unset

\* the call, and the two list initialisations
MinibatchCall ==
    /\ mpc \in {"idle", "done"}
    /\ \E k \in 1..MaxN : n' = k
    /\ mpc' = "loop"
    /\ i' = -1
    /\ inputs' = <<>>
    /\ trajectories' = <<>>
    /\ solution' = Unset
    /\ trajectory' = Unset
    /\ solutions' = <<>>
    /\ produced' = <<>>
    /\ ret' = Unset
    /\ UNCHANGED <<dynVars, nbVars>>

\* for i in range(n) yields the next i; get_random_trajectory is entered,
\* draws x0 and runs the solver
MinibatchSolve ==
    /\ mpc = "loop"
    /\ Len(inputs) < n
    /\ i' = Len(inputs)
    /\ \E u \in RandDraws, s \in 0..MaxSub : solution' = GrtSolve(u, s)
    /\ solutions' = Append(solutions, solution')
    /\ mpc' = "solved"
    /\ UNCHANGED <<n, inputs, trajectories, trajectory, produced, ret>>
    /\ UNCHANGED <<dynVars, nbVars>>

\* get_random_trajectory resamples and returns
MinibatchResample ==
    /\ mpc = "solved"
    /\ trajectory' = GrtResample(solution)
    /\ produced' = Append(produced, trajectory')
    /\ mpc' = "returned"
    /\ UNCHANGED <<n, i, inputs, trajectories, solution, solutions, ret>>
    /\ UNCHANGED <<dynVars, nbVars>>

\* the input built from the second sample instead of the first
InputOfSecondSample(traj) ==
    [k \in 1..Len(traj) |->
        [j \in 1..Len(traj[k]) |-> IF j = 1 THEN traj[k][2] ELSE R(0)]]

\* lines 142-144: the array whose first column is x0, the other columns zero
InputOf(traj) ==
    LET x0 == <<traj[1][1], traj[2][1]>>
        zeros == [k \in 1..Len(traj) |-> [j \in 1..Len(traj[k]) |-> R(0)]]
    IN  [k \in 1..Len(zeros) |-> [zeros[k] EXCEPT ![1] = x0[k]]]

\* lines 142-146: the rest of the loop body
MinibatchAppend ==
    /\ mpc = "returned"
    /\ inputs' = Append(inputs, Transpose(InputOf(trajectory)))
    /\ trajectories' = Append(trajectories, Transpose(trajectory))
    /\ mpc' = "loop"
    /\ UNCHANGED <<n, i, solution, trajectory, solutions, produced, ret>>
    /\ UNCHANGED <<dynVars, nbVars>>

\* the lists stacked without the swap of the first two axes
StackNoSwap(list) == list

\* np.array(list).swapaxes(0, 1)
Stack(list) == SwapAxes01(list)

\* the loop is exhausted: stack, swap axes, convert, return
MinibatchReturn ==
    /\ mpc = "loop"
    /\ Len(inputs) = n
    /\ inputs' = Stack(inputs)
    /\ trajectories' = Stack(trajectories)
    /\ ret' = <<Tensor(inputs'), Tensor(trajectories')>>
    /\ mpc' = "done"
    /\ UNCHANGED <<n, i, solution, trajectory, solutions, produced>>
    /\ UNCHANGED <<dynVars, nbVars>>

NextBatch ==
    \/ MinibatchCall
    \/ MinibatchSolve
    \/ MinibatchResample
    \/ MinibatchAppend
    \/ MinibatchReturn

----------------------------------------------------------------------------
(* Calls of van_der_pol_dynamics and of plot_flow_field.                   *)

\* the times and the state components the calls are made with
DynTimes == {R(0), <<1, 10>>, R(2)}
DynCoords ==
    {Linspace(R(-5), R(5), GridN)[k] : k \in 1..GridN} \cup {R(0), <<1, 2>>, R(3)}

NoFlow == [X1 |-> <<>>, X2 |-> <<>>, dx1 |-> <<>>, dx2 |-> <<>>]

\* no call in progress
InitDyn ==
    /\ dynT = R(0)
    /\ dynX = <<R(0), R(0)>>
    /\ dynOut = Unset
    /\ flow = NoFlow

\* a call about to be made with some time and some state
InitDynCall ==
    /\ dynT \in DynTimes
    /\ dynX \in DynCoords \X DynCoords
    /\ dynOut = Unset
    /\ flow = NoFlow

CallVanDerPol ==
    /\ dynOut = Unset
    /\ dynOut' = van_der_pol_dynamics(dynT, dynX)
    /\ UNCHANGED <<dynT, dynX, flow>>
    /\ UNCHANGED <<batchVars, nbVars>>

PlotFlowField ==
    /\ flow = NoFlow
    /\ flow' = plot_flow_field
    /\ UNCHANGED <<dynT, dynX, dynOut>>
    /\ UNCHANGED <<batchVars, nbVars>>

NextDyn ==
    \/ CallVanDerPol
    \/ PlotFlowField

----------------------------------------------------------------------------
(* The notebook's code cells, statement by statement.  A statement reads   *)
(* global names when it runs (uses), runs the bodies of the notebook's     *)
(* functions it calls (calls), and binds names (binds).  Builtins (range,  *)
(* print, len, int, super) are always bound.  The TODO lines stand for the *)
(* statements the exercise asks for: they bind LSTMNetwork's methods,      *)
(* model, optimizer and loss.                                              *)

St(line, kind, uses, calls, binds) ==
    [line |-> line, kind |-> kind, uses |-> uses, calls |-> calls, binds |-> binds]

\* the global names each function body reads, and the functions it runs
Bodies ==
    [plot_flow_field       |-> [uses |-> {"np", "plt"}, calls |-> {}],
     van_der_pol_dynamics  |-> [uses |-> {}, calls |-> {}],
     get_random_trajectory |-> [uses |-> {"np", "solve_ivp", "van_der_pol_dynamics"},
                                calls |-> {"van_der_pol_dynamics"}],
     get_minibatch         |-> [uses |-> {"get_random_trajectory", "np", "torch"},
                                calls |-> {"get_random_trajectory"}]]

Functions == DOMAIN Bodies

\* the top-level statements of the code cells, top to bottom
\* ("import a.b as c" binds c only; line 253 is the plotting loop of cell 6)
Cells ==
    << \* cell 1
       St(31, "import", {}, {}, {"np"}),
       St(32, "import", {}, {}, {"plt"}),
       St(34, "def", {}, {}, {"plot_flow_field"}),
       St(46, "exec", {"plot_flow_field"}, {"plot_flow_field"}, {}),
       St(47, "exec", {"plt"}, {}, {}),
       \* cell 2
       St(74, "import", {}, {}, {"solve_ivp"}),
       St(76, "def", {}, {}, {"van_der_pol_dynamics"}),
       St(88, "exec", {"np"}, {}, {"x0"}),
       St(89, "exec", {"solve_ivp", "van_der_pol_dynamics", "x0"},
                      {"van_der_pol_dynamics"}, {"solution"}),
       St(91, "exec", {"plot_flow_field"}, {"plot_flow_field"}, {}),
       St(92, "exec", {"plt", "solution"}, {}, {}),
       St(93, "exec", {"plt"}, {}, {}),
       \* cell 3
       St(113, "def", {}, {}, {"get_random_trajectory"}),
       St(133, "def", {}, {}, {"get_minibatch"}),
       \* cell 4
       St(170, "import", {}, {}, {"torch"}),
       St(171, "import", {}, {}, {"nn"}),
       St(173, "class", {"nn"}, {}, {"LSTMNetwork"}),
       \* cell 5
       St(204, "import", {}, {}, {"optim"}),
       St(206, "exec", {"nn"}, {}, {"loss_function"}),
       St(207, "exec", {"LSTMNetwork"}, {}, {"model"}),
       St(208, "exec", {"optim", "model"}, {}, {"optimizer"}),
       St(210, "exec", {}, {}, {"running_loss"}),
       St(211, "for", {}, {}, {"sample"}),
       \* cell 6
       St(249, "exec", {"plot_flow_field"}, {"plot_flow_field"}, {}),
       St(251, "exec", {"get_minibatch"}, {"get_minibatch"},
                       {"initial_conditions", "trajectories"}),
       St(252, "exec", {"model", "initial_conditions"}, {}, {"output"}),
       St(253, "exec", {"output", "plt"}, {}, {"i", "trajectory"}),
       St(256, "exec", {"plt"}, {}, {}) >>

\* the notebook without its "import torch" line
ProgramNoTorchImport == SelectSeq(Cells, LAMBDA st : st.line # 170)

\* the statements run, in order, when every cell is executed once
Program == Cells

\* the statements of the training loop's body
ForBody ==
    << St(212, "exec", {"model"}, {}, {}),
       St(214, "exec", {"get_minibatch"}, {"get_minibatch"},
                       {"initial_conditions", "trajectories"}),
       St(216, "exec", {"model", "loss_function", "initial_conditions", "trajectories"},
                       {}, {"loss"}),
       St(218, "exec", {"loss"}, {}, {}),
       St(221, "exec", {"running_loss", "loss"}, {}, {"running_loss"}),
       St(222, "exec", {"sample", "running_loss"}, {}, {}),
       St(224, "exec", {"optimizer"}, {}, {}) >>

NumIterations == 2000
BatchSize == 20
PrintEvery == 50

\* the values loss.item() may take
LossVals == {R(0), <<1, 2>>, R(3)}

\* every function a call of f runs, f included
RECURSIVE CallSet(_)
CallSet(f) == {f} \cup UNION {CallSet(g) : g \in Bodies[f].calls}

Calls(st) == UNION {CallSet(f) : f \in st.calls}

\* every global name read while st runs
Reads(st) == st.uses \cup Calls(st) \cup UNION {Bodies[f].uses : f \in Calls(st)}

Ok(st) == Reads(st) \subseteq bound

\* st runs: it binds its names, or stops the run with a NameError
Run(st) ==
    IF Ok(st)
    THEN /\ bound' = bound \cup st.binds
         /\ nameError' = nameError
         /\ boundAtDef' = [f \in Functions |->
                IF st.kind = "def" /\ f \in st.binds THEN <<bound>> ELSE boundAtDef[f]]
         /\ firstCall' = [f \in Functions |->
                IF firstCall[f] = Unset /\ f \in Calls(st) THEN <<bound>> ELSE firstCall[f]]
    ELSE /\ nameError' = CHOOSE nm \in Reads(st) \ bound : TRUE
         /\ UNCHANGED <<bound, boundAtDef, firstCall>>

InitNb ==
    /\ pc = 1
    /\ bpc = 0
    /\ bound = {}
    /\ nameError = "none"
    /\ boundAtDef = [f \in Functions |-> Unset]
    /\ firstCall = [f \in Functions |-> Unset]
    /\ rangeNext = 0
    /\ sample = -1
    /\ loss = Unset
    /\ batches = 0
    /\ lastBatchN = 0
    /\ steps = 0
    /\ printed = 0

Running == nameError = "none" /\ pc <= Len(Program)

InForBody(k) == Running /\ Program[pc].kind = "for" /\ bpc = k

loopVars == <<rangeNext, sample, loss, batches, lastBatchN, steps, printed>>

\* a top-level statement other than the training loop
ExecStmt ==
    /\ Running
    /\ Program[pc].kind # "for"
    /\ Run(Program[pc])
    /\ pc' = IF Ok(Program[pc]) THEN pc + 1 ELSE pc
    /\ UNCHANGED <<bpc, loopVars>>
    /\ UNCHANGED <<dynVars, batchVars>>

\* the loop head leaves the loop as soon as the last loss is zero
ForHeadStopOnZeroLoss ==
    /\ InForBody(0)
    /\ IF rangeNext < NumIterations /\ loss # R(0)
       THEN /\ Run(Program[pc])
            /\ sample' = rangeNext
            /\ rangeNext' = rangeNext + 1
            /\ bpc' = 1
            /\ pc' = pc
       ELSE /\ pc' = pc + 1
            /\ UNCHANGED <<bpc, bound, nameError, boundAtDef, firstCall,
                           sample, rangeNext>>
    /\ UNCHANGED <<loss, batches, lastBatchN, steps, printed>>
    /\ UNCHANGED <<dynVars, batchVars>>

\* for sample in range(2000): take the next value, or leave the loop
ForHead ==
    /\ InForBody(0)
    /\ IF rangeNext < NumIterations
       THEN /\ Run(Program[pc])
            /\ sample' = rangeNext
            /\ rangeNext' = rangeNext + 1
            /\ bpc' = 1
            /\ pc' = pc
       ELSE /\ pc' = pc + 1
            /\ UNCHANGED <<bpc, bound, nameError, boundAtDef, firstCall,
                           sample, rangeNext>>
    /\ UNCHANGED <<loss, batches, lastBatchN, steps, printed>>
    /\ UNCHANGED <<dynVars, batchVars>>

\* a body statement k runs, then control moves to statement nxt (0: the head)
BodyStep(k, nxt) ==
    /\ InForBody(k)
    /\ Run(ForBody[k])
    /\ bpc' = IF Ok(ForBody[k]) THEN nxt ELSE bpc
    /\ UNCHANGED <<pc, rangeNext, sample>>

\* model.zero_grad()
ZeroGrad ==
    /\ BodyStep(1, 2)
    /\ UNCHANGED <<loss, batches, lastBatchN, steps, printed>>
    /\ UNCHANGED <<dynVars, batchVars>>

\* initial_conditions, trajectories = get_minibatch(20)
DrawMinibatch ==
    /\ BodyStep(2, 3)
    /\ IF Ok(ForBody[2])
       THEN batches' = batches + 1 /\ lastBatchN' = BatchSize
       ELSE UNCHANGED <<batches, lastBatchN>>
    /\ UNCHANGED <<loss, steps, printed>>
    /\ UNCHANGED <<dynVars, batchVars>>

\* the TODO: run the model and calculate the loss
ComputeLoss ==
    /\ BodyStep(3, 4)
    /\ IF Ok(ForBody[3])
       THEN \E l \in LossVals : loss' = l
       ELSE UNCHANGED loss
    /\ UNCHANGED <<batches, lastBatchN, steps, printed>>
    /\ UNCHANGED <<dynVars, batchVars>>

\* loss.backward()
Backward ==
    /\ BodyStep(4, 5)
    /\ UNCHANGED <<loss, batches, lastBatchN, steps, printed>>
    /\ UNCHANGED <<dynVars, batchVars>>

\* running_loss = .9*running_loss + .1*loss.item(); its value is read by the
\* print below only and is not tracked
UpdateRunningLoss ==
    /\ BodyStep(5, 6)
    /\ UNCHANGED <<loss, batches, lastBatchN, steps, printed>>
    /\ UNCHANGED <<dynVars, batchVars>>

\* if sample % 50 == 49: print(...)
PrintProgress ==
    /\ BodyStep(6, 7)
    /\ IF Ok(ForBody[6]) /\ sample % PrintEvery = PrintEvery - 1
       THEN printed' = printed + 1
       ELSE UNCHANGED printed
    /\ UNCHANGED <<loss, batches, lastBatchN, steps>>
    /\ UNCHANGED <<dynVars, batchVars>>

\* optimizer.step()
OptimizerStep ==
    /\ BodyStep(7, 0)
    /\ IF Ok(ForBody[7])
       THEN steps' = steps + 1
       ELSE UNCHANGED steps
    /\ UNCHANGED <<loss, batches, lastBatchN, printed>>
    /\ UNCHANGED <<dynVars, batchVars>>

Next ==
    \/ ExecStmt
    \/ ForHead
    \/ ZeroGrad
    \/ DrawMinibatch
    \/ ComputeLoss
    \/ Backward
    \/ UpdateRunningLoss
    \/ PrintProgress
    \/ OptimizerStep

----------------------------------------------------------------------------

Init == InitDyn /\ InitBatch /\ InitNb

\* the notebook run from top to bottom
Spec == Init /\ [][Next]_vars

\* the same run, which goes on as long as a statement is left to execute
SpecRun == Spec /\ WF_vars(Next)

\* calls of get_minibatch
SpecBatch == Init /\ [][NextBatch]_vars

\* calls of van_der_pol_dynamics and plot_flow_field
InitCall == InitDynCall /\ InitBatch /\ InitNb
SpecDyn == InitCall /\ [][NextDyn]_vars

----------------------------------------------------------------------------
(* Properties.                                                             *)

Returned == mpc = "done"

\* C1: for every example of the pair returned by get_minibatch(n), the input
\* at the first sequence step equals the first step of that example's
\* target, and the target holds every sample of both state variables of the
\* trajectory get_random_trajectory produced for that example (as the
\* single-precision value torch.Tensor makes of it).
C1_InputIsStartTargetIsTrajectory ==
    Returned =>
        \A e \in 1..n :
            /\ ret[1][1][e] = ret[2][1][e]
            /\ Len(ret[2]) = Len(produced[e][1])
            /\ \A t \in 1..Len(ret[2]) : \A k \in 1..2 :
                   ret[2][t][e][k] = Float32(produced[e][k][t])

\* a minibatch of two different examples has been returned, the first
\* starting away from the origin and moving
C1_Witness ==
    /\ Returned
    /\ n = 2
    /\ produced[1] # produced[2]
    /\ ret[1][1][1] # <<Float32(R(0)), Float32(R(0))>>
    /\ ret[2][2][1] # ret[2][1][1]

\* C2: both returned tensors have shape (21, n, 2), axis order [sequence,
\* minibatch, elements]: element [t, i, k] of the target is state variable k
\* of example i at time sample t, that is the solver's value for variable k
\* wherever the solver stopped exactly at time t * 0.1.
C2_AxisOrder ==
    Returned =>
        /\ Shape3(ret[1]) = <<21, n, 2>>
        /\ Shape3(ret[2]) = <<21, n, 2>>
        /\ \A t \in 1..21 : \A e \in 1..n : \A k \in 1..2 :
               \A m \in 1..Len(solutions[e].t) :
                   solutions[e].t[m] = Norm(t - 1, 10) =>
                       ret[2][t][e][k] = Float32(solutions[e].y[k][m])

\* a minibatch of two examples has been returned whose solver runs stopped
\* at different numbers of time points
C2_Witness ==
    /\ Returned
    /\ n = 2
    /\ Len(solutions[1].t) = 21
    /\ Len(solutions[2].t) > 21
    /\ ret[2][21][2] # ret[2][21][1]

\* C3: every trajectory get_random_trajectory returns has 21 samples per
\* state variable (shape (2, 21)), taken at the times 0, 0.1, ..., 2.0,
\* whatever number of time points the solver returned for it.
C3_SameNumberOfSamples ==
    \A e \in 1..Len(produced) :
        /\ Len(produced[e]) = 2
        /\ \A k \in 1..2 :
               /\ Len(produced[e][k]) = 21
               /\ \A j \in 1..21 : \A m \in 1..Len(solutions[e].t) :
                      solutions[e].t[m] = Norm(j - 1, 10) =>
                          produced[e][k][j] = solutions[e].y[k][m]

\* two trajectories have been returned whose solver runs had different
\* numbers of time points, one of them not a multiple of the sample spacing
C3_Witness ==
    /\ Len(produced) = 2
    /\ Len(solutions[1].t) # Len(solutions[2].t)
    /\ \E m \in 1..Len(solutions[2].t) : solutions[2].t[m] = <<1, 15>>
    /\ Len(produced[1][1]) = 21
    /\ Len(produced[2][2]) = 21

\* C5: van_der_pol_dynamics(t, x) is [x[1], mu*(1 - x[0]^2)*x[1] - x[0]]
\* with mu = 0.1, whatever t is, and plot_flow_field draws the same vector at
\* every grid point.
C5_DynamicsIsTheFlowField ==
    dynOut # Unset =>
        /\ dynOut[1] = dynX[2]
        /\ RMul(R(10), dynOut[2]) =
               RSub(RMul(RSub(R(1), RMul(dynX[1], dynX[1])), dynX[2]),
                    RMul(R(10), dynX[1]))
        /\ \A tt \in DynTimes : van_der_pol_dynamics(tt, dynX) = dynOut
        /\ flow # NoFlow =>
               \A r \in 1..GridN : \A c \in 1..GridN :
                   (flow.X1[r][c] = dynX[1] /\ flow.X2[r][c] = dynX[2]) =>
                       (flow.dx1[r][c] = dynOut[1] /\ flow.dx2[r][c] = dynOut[2])

\* the function has been called at a time other than 0 on a state that is a
\* grid point of the plotted field and where the damping term is not zero
C5_Witness ==
    /\ dynOut # Unset
    /\ flow # NoFlow
    /\ dynT # R(0)
    /\ \E r \in 1..GridN : \E c \in 1..GridN :
           flow.X1[r][c] = dynX[1] /\ flow.X2[r][c] = dynX[2]
    /\ dynOut[2] # RSub(R(0), dynX[1])

ForIdx == CHOOSE k \in 1..Len(Program) : Program[k].kind = "for"

\* the counts of the training loop at each of its positions
LoopCounts ==
    /\ pc < ForIdx => (batches = 0 /\ steps = 0)
    /\ (pc = ForIdx /\ bpc = 0) =>
           (rangeNext <= 2000 /\ batches = rangeNext /\ steps = rangeNext)
    /\ (pc = ForIdx /\ bpc \in 1..2) =>
           (sample = rangeNext - 1 /\ batches = sample /\ steps = sample)
    /\ (pc = ForIdx /\ bpc \in 3..7) =>
           (sample = rangeNext - 1 /\ batches = sample + 1 /\ steps = sample)
    /\ pc = ForIdx => sample < 2000
    /\ pc > ForIdx => (sample = 1999 /\ batches = 2000 /\ steps = 2000)
    /\ batches > 0 => lastBatchN = 20

\* C4: the training loop is a fixed-iteration loop: it ends, after exactly
\* 2000 iterations (sample = 0..1999), each drawing exactly one minibatch of
\* 20 trajectories and doing exactly one optimizer.step, whatever the losses.
C4_FixedIterationLoop == []LoopCounts /\ <>(pc > ForIdx)

\* the loop has ended although the last loss was zero, and an earlier
\* iteration is on record through its progress lines
C4_Witness ==
    /\ pc > ForIdx
    /\ steps = 2000
    /\ loss = R(0)
    /\ printed = 40

\* C6: running the cells top to bottom raises no NameError: every function
\* is defined before its first call and every global name its body reads is
\* bound by then; get_minibatch is defined while torch is still unbound and
\* first called when torch is bound.
C6_NoNameUsedBeforeBound ==
    /\ nameError = "none"
    /\ \A f \in Functions :
           firstCall[f] # Unset =>
               /\ boundAtDef[f] # Unset
               /\ f \in firstCall[f][1]
               /\ Bodies[f].uses \subseteq firstCall[f][1]
    /\ boundAtDef["get_minibatch"] # Unset =>
           "torch" \notin boundAtDef["get_minibatch"][1]
    /\ firstCall["get_minibatch"] # Unset =>
           "torch" \in firstCall["get_minibatch"][1]

\* every cell has run, and each of the notebook's functions has been called
C6_Witness ==
    /\ pc = Len(Program) + 1
    /\ nameError = "none"
    /\ \A f \in Functions : firstCall[f] # Unset
    /\ "torch" \notin boundAtDef["get_minibatch"][1]

====
